---- MODULE Spec2Model ----
(***************************************************************************)
(* The build pipeline of rspack_core's Compiler (build, compile,           *)
(* compile_done, emit_assets, emit_asset) together with the make hook of   *)
(* rspack_plugin_entry's EntryPlugin and the conversion of the raw         *)
(* minification match conditions of rspack_binding_options.                *)
(*                                                                         *)
(* One action per await point of Compiler::build.  Filenames are sequences *)
(* of characters so that split_once('?') is computed, not assumed.         *)
(***************************************************************************)
EXTENDS Integers, Sequences, FiniteSets, TLC

VARIABLES
  raw_minification,       \* the raw match conditions handed over by the binding
  minification,           \* what their conversion returned
  plugin_driver_diagnostics, \* the diagnostics side channel of the PluginDriver
  options,                \* Compiler.options (immutable after construction)
  project,                \* the source project handed to the compiler
  pc,                     \* the phase Compiler::build is about to run
  result,                 \* what the last build() call returned
  cache,                  \* Cache lifecycle state: "idle" or "active"
  compilation,            \* Compiler.compilation
  make_param,             \* the MakeParam of compile(), as left by the make hook
  next_dependency_id,     \* the process-wide dependency id allocator
  emitted_asset_versions, \* Compiler.emitted_asset_versions
  output_filesystem,      \* files under options.output.path: path -> content
  tasks,                  \* the emit_asset futures of this emission
  asset_iter,             \* the order in which emit_assets iterated compilation.assets()
  clean_log,              \* what the clean step of this emission asked of the filesystem
  trace,                  \* the phases this build has entered, in order
  hook_calls,             \* the plugins the most recent hook dispatch invoked
  errors,                 \* the errors the phases of this build have returned
  analyze_result,         \* what optimize_dependency returned in this build
  prev                    \* the previous build: its assets, its writes, its result,
                          \* and whether any build before this one wrote an asset

vars == <<raw_minification, minification, plugin_driver_diagnostics, options, project, pc, result, cache, compilation, make_param,
          next_dependency_id, emitted_asset_versions, output_filesystem,
          tasks, asset_iter, clean_log, trace, hook_calls, errors,
          analyze_result, prev>>

----------------------------------------------------------------------------
(* Bounds and universes *)

MaxDependencyId == 2

\* the longest array_matcher handed to the conversion
MaxArrayLen == 2

QueryFile == <<"a", "?", "1">>
PlainFile == <<"b">>

\* A project is what make and seal can draw from: the module identifiers a
\* module graph may hold, the filenames, versions and sources assets may have,
\* and whether its plugins and its analysis raise diagnostics.
\* CompileProject varies the module graph, EmitProject the assets (one
\* filename with a query string, one without; an empty and two non-empty
\* versions).
CompileProject ==
  [files |-> {PlainFile}, versions |-> {"v1"}, sources |-> {TRUE},
   modules |-> {"m1", "m2"}, diagnostics |-> {FALSE}]

EmitProject ==
  [files |-> {QueryFile, PlainFile}, versions |-> {"", "v1", "v2"},
   sources |-> {TRUE}, modules |-> {}, diagnostics |-> {FALSE}]

\* SourceProject varies whether an asset has a source at all
SourceProject ==
  [files |-> {QueryFile, PlainFile}, versions |-> {"v1"},
   sources |-> {TRUE, FALSE}, modules |-> {}, diagnostics |-> {FALSE}]

\* DiagnosticsProject lets the plugins and the analysis raise diagnostics
DiagnosticsProject ==
  [files |-> {PlainFile}, versions |-> {"v1"}, sources |-> {TRUE},
   modules |-> {}, diagnostics |-> {FALSE, TRUE}]

\* Option<Vec<String>>: the empty set is None, a singleton is Some(vec)
LibraryTypeChoices ==
  {{}, {<<"umd">>}, {<<"module">>}, {<<"umd", "commonjs-static">>}}

\* the registered plugins, in registration order
Plugins == <<"generic", "generic", "entry">>
EntryName == "main"

PartialMaps(K, V) == UNION {[D -> V] : D \in SUBSET K}
Range(s) == {s[i] : i \in DOMAIN s}

Min(S) == CHOOSE x \in S : \A y \in S : x <= y

----------------------------------------------------------------------------
(* Results *)

NoFile == <<>>
NoResult == [status |-> "none", phase |-> "", plugin |-> 0, file |-> NoFile]
Running == [status |-> "running", phase |-> "", plugin |-> 0, file |-> NoFile]
Ok == [status |-> "ok", phase |-> "", plugin |-> 0, file |-> NoFile]
Err(phase, plugin, file) ==
  [status |-> "err", phase |-> phase, plugin |-> plugin, file |-> file]

----------------------------------------------------------------------------
(* Filenames and paths *)

\* filename.split_once('?').map(|(filename, _query)| filename).unwrap_or(filename)
SplitOnceQuery(filename) ==
  IF \E i \in DOMAIN filename : filename[i] = "?"
    THEN SubSeq(filename, 1, Min({i \in DOMAIN filename : filename[i] = "?"}) - 1)
    ELSE filename

\* the path emit_asset writes: output_path.join(filename before the query)
WritePath(filename) == SplitOnceQuery(filename)

\* the path the clean step removes: output.path.join(filename)
RemovePath(filename) == filename

----------------------------------------------------------------------------
(* Options *)

LibraryTypesMatch(opts) ==
  \E types \in opts.enabled_library_types :
    \E i \in DOMAIN types : types[i] = "module" \/ types[i] = "commonjs-static"

\* AnalysisGate with the library types forgotten
AnalysisGateTreeShakingOnly(opts) == opts.tree_shaking

\* the condition guarding optimize_dependency in compile
AnalysisGate(opts) == opts.tree_shaking \/ LibraryTypesMatch(opts)

\* NarrowGate with the side-effects option forgotten
NarrowGateTreeShakingOnly(opts) == opts.tree_shaking

\* the condition guarding the replacement of include_module_ids
NarrowGate(opts) == opts.tree_shaking /\ opts.side_effects

\* EmitEnabled with no_emit_assets ignored
EmitEnabledAlways(opts) == TRUE

\* compile_done: whether emit_assets runs
EmitEnabled(opts) == ~opts.no_emit_assets

\* EntryAlreadyRegistered with the is_first test forgotten
EntrySkipsWheneverIncremental(opts) == opts.incremental_rebuild_make_state # "none"

\* EntryPlugin::make: the early return
EntryAlreadyRegistered(opts) == opts.incremental_rebuild_make_state = "later"

----------------------------------------------------------------------------
(* The order of the phases of build, compile, compile_done and emit_assets *)

\* Successor with the emit hook fired after the asset writes
SuccessorEmitAfterWrites(phase, opts) ==
  CASE phase = "before_compile" -> "this_compilation"
    [] phase = "this_compilation" -> "compilation"
    [] phase = "compilation" -> "make"
    [] phase = "make" -> "finish_make"
    [] phase = "finish_make" -> "finish"
    [] phase = "finish" ->
         IF opts.tree_shaking \/ LibraryTypesMatch(opts)
           THEN "optimize_dependency" ELSE "seal"
    [] phase = "optimize_dependency" -> "seal"
    [] phase = "seal" -> "after_compile"
    [] phase = "after_compile" -> "take_diagnostic"
    [] phase = "take_diagnostic" -> "begin_idle"
    [] phase = "begin_idle" -> IF opts.no_emit_assets THEN "done" ELSE "clean"
    [] phase = "clean" -> "asset_writes"
    [] phase = "asset_writes" -> "emit"
    [] phase = "emit" -> "after_emit"
    [] phase = "after_emit" -> "done"
    [] phase = "done" -> "idle"

\* Successor with begin_idle called after compile_done
SuccessorIdleAfterDone(phase, opts) ==
  CASE phase = "before_compile" -> "this_compilation"
    [] phase = "this_compilation" -> "compilation"
    [] phase = "compilation" -> "make"
    [] phase = "make" -> "finish_make"
    [] phase = "finish_make" -> "finish"
    [] phase = "finish" ->
         IF opts.tree_shaking \/ LibraryTypesMatch(opts)
           THEN "optimize_dependency" ELSE "seal"
    [] phase = "optimize_dependency" -> "seal"
    [] phase = "seal" -> "after_compile"
    [] phase = "after_compile" -> "take_diagnostic"
    [] phase = "take_diagnostic" -> IF opts.no_emit_assets THEN "done" ELSE "clean"
    [] phase = "clean" -> "emit"
    [] phase = "emit" -> "asset_writes"
    [] phase = "asset_writes" -> "after_emit"
    [] phase = "after_emit" -> "done"
    [] phase = "done" -> "begin_idle"
    [] phase = "begin_idle" -> "idle"

Successor(phase, opts) ==
  CASE phase = "before_compile" -> "this_compilation"
    [] phase = "this_compilation" -> "compilation"
    [] phase = "compilation" -> "make"
    [] phase = "make" -> "finish_make"
    [] phase = "finish_make" -> "finish"
    [] phase = "finish" ->
         IF AnalysisGate(opts) THEN "optimize_dependency" ELSE "seal"
    [] phase = "optimize_dependency" -> "seal"
    [] phase = "seal" -> "after_compile"
    [] phase = "after_compile" -> "take_diagnostic"
    [] phase = "take_diagnostic" -> "begin_idle"
    [] phase = "begin_idle" -> IF EmitEnabled(opts) THEN "clean" ELSE "done"
    [] phase = "clean" -> "emit"
    [] phase = "emit" -> "asset_writes"
    [] phase = "asset_writes" -> "after_emit"
    [] phase = "after_emit" -> "done"
    [] phase = "done" -> "idle"

\* Propagate with the result of after_emit discarded
PropagateDropsAfterEmit(phase, outcome, opts) ==
  IF outcome.status = "err" /\ phase # "after_emit"
    THEN [pc |-> "idle", result |-> outcome]
    ELSE LET next == Successor(phase, opts) IN
         [pc |-> next, result |-> IF next = "idle" THEN Ok ELSE Running]

\* the ? operator: an error returns from build, success goes on
Propagate(phase, outcome, opts) ==
  IF outcome.status = "err"
    THEN [pc |-> "idle", result |-> outcome]
    ELSE LET next == Successor(phase, opts) IN
         [pc |-> next, result |-> IF next = "idle" THEN Ok ELSE Running]

----------------------------------------------------------------------------
(* PluginDriver: one hook dispatched over the plugin list *)

\* the plugins whose hook implementation may return an error
Fallible == {i \in DOMAIN Plugins : Plugins[i] = "generic"}

\* failing: the plugins that would return an error from this hook
CallHook(failing) ==
  LET bad == failing \cap DOMAIN Plugins
      k == IF bad = {} THEN 0 ELSE Min(bad)
  IN [invoked |-> IF k = 0 THEN [i \in 1..Len(Plugins) |-> i]
                           ELSE [i \in 1..k |-> i],
      error |-> k]

\* HookOutcome with the plugin's error swallowed
HookOutcomeSwallowed(phase, call) == Ok

\* what a hook dispatch returns to build
HookOutcome(phase, call) ==
  IF call.error = 0 THEN Ok ELSE Err(phase, call.error, NoFile)

\* a diagnostic, by who raised it and in which build, seen from the build
\* that is running
Diagnostic(origin, build) == [origin |-> origin, build |-> build]

\* a plugin pushes a diagnostic into the side channel during a hook
RaiseDiagnostic(diagnostics, raised) ==
  IF raised THEN diagnostics \cup {Diagnostic("plugin", "this")} ELSE diagnostics

\* a new build starts: what the side channel still holds is of an earlier build
Age(diagnostics) == {Diagnostic(d.origin, "earlier") : d \in diagnostics}

----------------------------------------------------------------------------
(* Compilation *)

\* Compilation::push_batch_diagnostic
PushBatchDiagnostic(comp, diagnostics) ==
  [comp EXCEPT !.diagnostics = @ \cup diagnostics]

\* Compilation::new: nothing built, nothing analysed, nothing emitted
NewCompilation ==
  [modules |-> {}, dependencies |-> {}, entries |-> {},
   include_module_ids |-> {},
   used_symbol_ref |-> {}, bailout_module_identifiers |-> {},
   side_effects_free_modules |-> {}, module_item_map |-> {},
   optimize_analyze_result_map |-> {},
   assets |-> <<>>, emitted_assets |-> {}, diagnostics |-> {}]

\* Compilation::add_entry: the dependency joins the entry's list
AddEntry(comp, dependency_id, name) ==
  [comp EXCEPT !.entries = @ \cup {[name |-> name, dependency |-> dependency_id]}]

\* ModuleGraph::add_dependency
AddDependency(comp, dependency_id) ==
  [comp EXCEPT !.dependencies = @ \cup {dependency_id}]

\* MakeParam::add_force_build_dependency, on the ForceBuildDeps set
AddForceBuildDependency(param, dependency_id) == param \cup {dependency_id}

\* EntryPlugin::make on st = [compilation, param, next_id]
EntryMake(st, opts) ==
  IF EntryAlreadyRegistered(opts)
    THEN st
    ELSE LET dependency_id == st.next_id
             added == AddEntry(st.compilation, dependency_id, EntryName)
             forced == AddForceBuildDependency(st.param, dependency_id)
         IN [compilation |-> AddDependency(added, dependency_id),
             param |-> AddForceBuildDependency(forced, dependency_id),
             next_id |-> dependency_id + 1]

\* the make hook of plugin i
PluginMake(i, st, opts) ==
  IF Plugins[i] = "entry" THEN EntryMake(st, opts) ELSE st

\* PluginDriver::make over the plugins invoked, in order
RECURSIVE RunMake(_, _, _)
RunMake(invoked, st, opts) ==
  IF invoked = <<>>
    THEN st
    ELSE RunMake(Tail(invoked), PluginMake(Head(invoked), st, opts), opts)

\* what optimize_dependency may report for a module graph
AnalyzeResults(modules) ==
  {[used_symbol_ref |-> used,
    bail_out_module_identifiers |-> modules \ used,
    side_effects_free_modules |-> used,
    module_item_map |-> used,
    analyze_results |-> modules,
    include_module_ids |-> include] :
      used \in SUBSET modules, include \in SUBSET modules}

\* compile, lines 171-182: the analysis result stored into the compilation
StoreAnalysis(comp, res, opts) ==
  [comp EXCEPT
     !.used_symbol_ref = res.used_symbol_ref,
     !.bailout_module_identifiers = res.bail_out_module_identifiers,
     !.side_effects_free_modules = res.side_effects_free_modules,
     !.module_item_map = res.module_item_map,
     !.include_module_ids =
        IF NarrowGate(opts) THEN res.include_module_ids ELSE @,
     !.optimize_analyze_result_map = res.analyze_results]

\* the asset sets seal may produce for a project
AssetMaps(proj) ==
  PartialMaps(proj.files, [version : proj.versions, source : proj.sources])

----------------------------------------------------------------------------
(* Asset emission *)

\* SkipWrite with the emptiness test inverted
SkipWriteEmptyOnly(versions, filename, asset) ==
  /\ filename \in DOMAIN versions
  /\ versions[filename] = asset.version
  /\ versions[filename] = ""

\* SkipWrite with the comparison of the versions forgotten
SkipWriteAnyVersion(versions, filename, asset) ==
  /\ filename \in DOMAIN versions
  /\ versions[filename] # ""

\* emit_assets, lines 250-254: the write is skipped
SkipWrite(versions, filename, asset) ==
  /\ filename \in DOMAIN versions
  /\ versions[filename] = asset.version
  /\ versions[filename] # ""

\* NewEmittedAssetVersions recording whether or not tracking is enabled
NewEmittedAssetVersionsAlways(assets, opts) ==
  [f \in DOMAIN assets |-> assets[f].version]

\* emit_assets, lines 246-248: the version map of this emission
NewEmittedAssetVersions(assets, opts) ==
  IF opts.incremental_rebuild_emit_asset
    THEN [f \in DOMAIN assets |-> assets[f].version]
    ELSE <<>>

\* CleanMode that only ever prunes
CleanModeNeverWipes(opts, versions) ==
  IF ~opts.clean THEN "none" ELSE "remove_unused"

\* emit_assets, lines 213-219: what the clean step does
CleanMode(opts, versions) ==
  IF ~opts.clean THEN "none"
  ELSE IF DOMAIN versions = {} THEN "remove_dir_all"
  ELSE "remove_unused"

\* emit_assets, lines 223-232: the recorded filenames no longer among the assets
StaleFiles(versions, assets) == {f \in DOMAIN versions : f \notin DOMAIN assets}

\* remove_file: an existing path is removed unless the filesystem faults
RemoveFiles(fs, paths) == [p \in DOMAIN fs \ paths |-> fs[p]]

\* write(path, bytes)
WriteFile(fs, path, content) ==
  [p \in DOMAIN fs \cup {path} |-> IF p = path THEN content ELSE fs[p]]

\* an emit_asset future: whether it wrote the file, what it returned, and the
\* plugins its asset_emitted dispatch invoked
Pending == [state |-> "pending", wrote |-> FALSE, error |-> Ok, invoked |-> <<>>]
Settled(wrote, error, invoked) ==
  [state |-> "settled", wrote |-> wrote, error |-> error, invoked |-> invoked]

\* the orders in which a set of keys can be iterated
Orders(keys) ==
  {o \in [1..Cardinality(keys) -> keys] : \A k \in keys : \E i \in DOMAIN o : o[i] = k}

\* FirstError returning the last error in iteration order
LastError(order, results) ==
  LET failed == {i \in DOMAIN order :
                   order[i] \in DOMAIN results /\ results[order[i]].error.status = "err"}
  IN IF failed = {} THEN Ok
     ELSE results[order[CHOOSE i \in failed : \A j \in failed : j <= i]].error

\* emit_assets, lines 262-264: the first error in iteration order
FirstError(order, results) ==
  LET failed == {i \in DOMAIN order :
                   order[i] \in DOMAIN results /\ results[order[i]].error.status = "err"}
  IN IF failed = {} THEN Ok ELSE results[order[Min(failed)]].error

\* collect::<FuturesResults<_>>: every spawned future has run to completion
FuturesSettled(results) == \A f \in DOMAIN results : results[f].state = "settled"

\* the assets physically written by an emission
Written(results) == {f \in DOMAIN results : results[f].wrote}

\* the assets whose create_dir_all or write returned an error
WriteFailed(results) ==
  {f \in DOMAIN results : results[f].error.status = "err" /\ ~results[f].wrote}

----------------------------------------------------------------------------
(* raw_builtins: the conversion of the raw minification match conditions *)

\* Option<T>: the empty set is None, a singleton is Some(value)
None == {}
Some(value) == {value}
Unwrap(option) == CHOOSE value \in option : TRUE

\* the values the type field of a raw condition may carry
TypeChoices == {"string", "regexp", "array", "function"}
StringMatcherChoices == {None, Some("a")}
\* "(" is a pattern the regular-expression compiler rejects
RegexpMatcherChoices == {None, Some("a"), Some("(")}

RawMinificationCondition ==
  [type : TypeChoices, string_matcher : StringMatcherChoices,
   regexp_matcher : RegexpMatcherChoices]

ArrayMatcherChoices ==
  {None} \cup
  {Some(a) : a \in UNION {[1..n -> RawMinificationCondition] : n \in 0..MaxArrayLen}}

RawMinificationConditions ==
  [type : TypeChoices, string_matcher : StringMatcherChoices,
   regexp_matcher : RegexpMatcherChoices, array_matcher : ArrayMatcherChoices]

\* the three ways try_from can end
Converted(value) == [status |-> "ok", value |-> value, message |-> ""]
InternalError(message) == [status |-> "err", value |-> <<>>, message |-> message]
Panicked(message) == [status |-> "panic", value |-> <<>>, message |-> message]
NotConverted == [status |-> "pending", value |-> <<>>, message |-> ""]

\* RspackRegex::new(pattern)
RegexNew(pattern) ==
  IF pattern = "(" THEN InternalError("invalid regexp")
  ELSE Converted([kind |-> "Regexp", matcher |-> pattern])

\* the "string" arm shared by both conversions
StringArm(x) ==
  IF x.string_matcher = None
    THEN InternalError("should have a string_matcher")
    ELSE Converted([kind |-> "String", matcher |-> Unwrap(x.string_matcher)])

\* the "regexp" arm shared by both conversions
RegexpArm(x) ==
  IF x.regexp_matcher = None
    THEN InternalError("should have a regexp_matcher")
    ELSE RegexNew(Unwrap(x.regexp_matcher))

\* the _ arm of both matches: panic!
FallbackArm(type) == Panicked("Failed to resolve the condition type")

\* impl TryFrom<RawMinificationCondition> for MinificationCondition
TryFromCondition(x) ==
  CASE x.type = "string" -> StringArm(x)
    [] x.type = "regexp" -> RegexpArm(x)
    [] OTHER -> FallbackArm(x.type)

\* .into_iter().map(|i| i.try_into()).collect::<Result<Vec<_>>>(): the
\* elements are converted in order; the first Err ends the iteration, a
\* panic unwinds out of it
RECURSIVE CollectConditions(_)
CollectConditions(array) ==
  IF array = <<>>
    THEN Converted(<<>>)
    ELSE LET head == TryFromCondition(Head(array)) IN
         IF head.status # "ok"
           THEN head
           ELSE LET rest == CollectConditions(Tail(array)) IN
                IF rest.status # "ok"
                  THEN rest
                  ELSE Converted(<<head.value>> \o rest.value)

\* impl TryFrom<RawMinificationConditions> for MinificationConditions
TryFromConditions(value) ==
  CASE value.type = "string" -> StringArm(value)
    [] value.type = "regexp" -> RegexpArm(value)
    [] value.type = "array" ->
         IF value.array_matcher = None
           THEN InternalError("should have a array_matcher")
           ELSE LET items == CollectConditions(Unwrap(value.array_matcher)) IN
                IF items.status # "ok"
                  THEN items
                  ELSE Converted([kind |-> "Array", matcher |-> items.value])
    [] OTHER -> FallbackArm(value.type)

\* no match conditions configured: RawMinification.test is None
NoRaw == [form |-> "none", value |-> <<>>]

----------------------------------------------------------------------------
(* Initial states *)

OptionChoices ==
  [clean : BOOLEAN,
   incremental_rebuild_emit_asset : BOOLEAN,
   no_emit_assets : BOOLEAN,
   tree_shaking : BOOLEAN,
   side_effects : BOOLEAN,
   enabled_library_types : LibraryTypeChoices,
   incremental_rebuild_make_state : {"none", "first", "later"}]

NoCalls == [hook |-> "", invoked |-> <<>>]
NoClean == [op |-> "none", stale |-> {}, faults |-> {}]
NoPrev ==
  [assets |-> <<>>, written |-> {}, failed |-> {}, ok |-> FALSE, emitted |-> FALSE]

\* Compiler::new
Constructed ==
  /\ pc = "idle"
  /\ result = NoResult
  /\ cache = "idle"
  /\ compilation = NewCompilation
  /\ make_param = {}
  /\ next_dependency_id = 0
  /\ emitted_asset_versions = <<>>
  /\ output_filesystem = <<>>
  /\ tasks = <<>>
  /\ asset_iter = <<>>
  /\ clean_log = NoClean
  /\ trace = <<>>
  /\ hook_calls = NoCalls
  /\ errors = {}
  /\ analyze_result = {}
  /\ prev = NoPrev
  /\ plugin_driver_diagnostics = {}

\* no minification match conditions were configured
NoConditions ==
  /\ raw_minification = NoRaw
  /\ minification = NotConverted

Init ==
  /\ options \in OptionChoices
  /\ project = CompileProject
  /\ NoConditions
  /\ Constructed

\* the emission options vary; the analysis always runs, on an empty module graph
InitEmit ==
  /\ options \in {o \in OptionChoices :
                    /\ o.tree_shaking
                    /\ ~o.side_effects
                    /\ o.enabled_library_types = {}
                    /\ o.incremental_rebuild_make_state = "none"}
  /\ project = EmitProject
  /\ NoConditions
  /\ Constructed

InitSource ==
  /\ options \in {o \in OptionChoices :
                    /\ ~o.side_effects
                    /\ o.enabled_library_types = {}
                    /\ o.incremental_rebuild_make_state = "none"}
  /\ project = SourceProject
  /\ NoConditions
  /\ Constructed

\* one set of options; the plugins and the analysis may raise diagnostics
InitDiagnostics ==
  /\ options \in {o \in OptionChoices :
                    /\ ~o.clean /\ ~o.incremental_rebuild_emit_asset
                    /\ ~o.no_emit_assets /\ o.tree_shaking /\ ~o.side_effects
                    /\ o.enabled_library_types = {}
                    /\ o.incremental_rebuild_make_state = "none"}
  /\ project = DiagnosticsProject
  /\ NoConditions
  /\ Constructed

\* the binding hands over one raw value, of either form
InitBuiltins ==
  /\ options \in {o \in OptionChoices :
                    /\ ~o.clean /\ ~o.incremental_rebuild_emit_asset
                    /\ ~o.no_emit_assets /\ ~o.tree_shaking /\ ~o.side_effects
                    /\ o.enabled_library_types = {}
                    /\ o.incremental_rebuild_make_state = "none"}
  /\ project = CompileProject
  /\ \/ \E x \in RawMinificationCondition :
          raw_minification = [form |-> "condition", value |-> x]
     \/ \E value \in RawMinificationConditions :
          raw_minification = [form |-> "conditions", value |-> value]
  /\ minification = NotConverted
  /\ Constructed

----------------------------------------------------------------------------
(* Actions: Compiler::build up to compile *)

Advance(phase, outcome) ==
  LET p == Propagate(phase, outcome, options)
  IN /\ pc' = p.pc
     /\ result' = p.result
     /\ errors' = IF outcome.status = "err" THEN errors \cup {outcome} ELSE errors

\* build, lines 87-103: end_idle, clear_entries, fast_set of a new Compilation
Build ==
  /\ pc = "idle"
  /\ next_dependency_id < MaxDependencyId
  /\ cache' = "active"
  /\ prev' = [assets |-> compilation.assets, written |-> Written(tasks),
              failed |-> WriteFailed(tasks), ok |-> result.status = "ok",
              emitted |-> prev.emitted \/ Written(tasks) # {}]
  /\ compilation' = NewCompilation
  /\ trace' = <<"end_idle", "clear_entries", "fast_set">>
  /\ pc' = "before_compile"
  /\ result' = Running
  /\ make_param' = {}
  /\ tasks' = <<>>
  /\ asset_iter' = <<>>
  /\ clean_log' = NoClean
  /\ hook_calls' = NoCalls
  /\ errors' = {}
  /\ analyze_result' = {}
  /\ plugin_driver_diagnostics' = Age(plugin_driver_diagnostics)
  /\ UNCHANGED <<raw_minification, minification, options, project, next_dependency_id, emitted_asset_versions,
                 output_filesystem>>

\* a hook that only notifies the plugins
Hook(phase) ==
  /\ pc = phase
  /\ \E failing \in SUBSET Fallible :
       LET call == CallHook(failing) IN
         /\ hook_calls' = [hook |-> phase, invoked |-> call.invoked]
         /\ Advance(phase, HookOutcome(phase, call))
  /\ \E raised \in project.diagnostics :
       plugin_driver_diagnostics' =
         RaiseDiagnostic(plugin_driver_diagnostics, raised)
  /\ trace' = Append(trace, phase)
  /\ UNCHANGED <<raw_minification, minification, options, project, cache, compilation, make_param,
                 next_dependency_id, emitted_asset_versions, output_filesystem,
                 tasks, asset_iter, clean_log, prev, analyze_result>>

BeforeCompile == Hook("before_compile")
ThisCompilation == Hook("this_compilation")
CompilationHook == Hook("compilation")
FinishMake == Hook("finish_make")
AfterCompile == Hook("after_compile")
Emit == Hook("emit")
AfterEmit == Hook("after_emit")
Done == Hook("done")

\* Compilation::make: the make hook, then the module graph built from the
\* forced dependencies
Make ==
  /\ pc = "make"
  /\ \E failing \in SUBSET Fallible, built \in SUBSET project.modules,
        failed \in BOOLEAN :
       LET call == CallHook(failing)
           st == RunMake(call.invoked,
                         [compilation |-> compilation, param |-> {},
                          next_id |-> next_dependency_id], options)
           outcome == IF call.error # 0 THEN HookOutcome("make", call)
                      ELSE IF failed THEN Err("make", 0, NoFile) ELSE Ok
       IN /\ hook_calls' = [hook |-> "make", invoked |-> call.invoked]
          /\ make_param' = st.param
          /\ next_dependency_id' = st.next_id
          /\ compilation' =
               IF outcome.status = "ok" /\ st.param # {}
                 THEN [st.compilation EXCEPT !.modules = built]
                 ELSE st.compilation
          /\ Advance("make", outcome)
  /\ \E raised \in project.diagnostics :
       plugin_driver_diagnostics' =
         RaiseDiagnostic(plugin_driver_diagnostics, raised)
  /\ trace' = Append(trace, "make")
  /\ UNCHANGED <<raw_minification, minification, options, project, cache, emitted_asset_versions,
                 output_filesystem, tasks, asset_iter, clean_log, prev, analyze_result>>

\* Compilation::finish (the finish hook), then compile lines 140-146
Finish ==
  /\ pc = "finish"
  /\ \E failing \in SUBSET Fallible :
       LET call == CallHook(failing)
           outcome == HookOutcome("finish", call)
       IN /\ hook_calls' = [hook |-> "finish", invoked |-> call.invoked]
          /\ compilation' =
               IF outcome.status = "ok"
                 THEN [compilation EXCEPT !.include_module_ids = compilation.modules]
                 ELSE compilation
          /\ Advance("finish", outcome)
  /\ \E raised \in project.diagnostics :
       plugin_driver_diagnostics' =
         RaiseDiagnostic(plugin_driver_diagnostics, raised)
  /\ trace' = Append(trace, "finish")
  /\ UNCHANGED <<raw_minification, minification, options, project, cache, make_param, next_dependency_id,
                 emitted_asset_versions, output_filesystem, tasks, asset_iter,
                 clean_log, prev, analyze_result>>

\* compile, lines 161-182
OptimizeDependency ==
  /\ pc = "optimize_dependency"
  /\ \/ \E res \in AnalyzeResults(compilation.modules),
             raised \in project.diagnostics :
          /\ analyze_result' = {res}
          /\ compilation' =
               StoreAnalysis(
                 IF raised
                   THEN PushBatchDiagnostic(compilation,
                                            {Diagnostic("analysis", "this")})
                   ELSE compilation,
                 res, options)
          /\ Advance("optimize_dependency", Ok)
     \/ /\ Advance("optimize_dependency", Err("optimize_dependency", 0, NoFile))
        /\ UNCHANGED <<compilation, analyze_result>>
  /\ trace' = Append(trace, "optimize_dependency")
  /\ UNCHANGED <<raw_minification, minification, plugin_driver_diagnostics, options, project, cache, make_param, next_dependency_id,
                 emitted_asset_versions, output_filesystem, tasks, asset_iter,
                 clean_log, hook_calls, prev>>

\* Compilation::seal: the assets of this build
Seal ==
  /\ pc = "seal"
  /\ \/ \E assets \in AssetMaps(project) :
          /\ compilation' = [compilation EXCEPT !.assets = assets]
          /\ Advance("seal", Ok)
     \/ /\ Advance("seal", Err("seal", 0, NoFile))
        /\ UNCHANGED compilation
  /\ trace' = Append(trace, "seal")
  /\ UNCHANGED <<raw_minification, minification, plugin_driver_diagnostics, options, project, cache, make_param, next_dependency_id,
                 emitted_asset_versions, output_filesystem, tasks, asset_iter,
                 clean_log, hook_calls, prev, analyze_result>>

\* compile, lines 193-196
TakeDiagnostic ==
  /\ pc = "take_diagnostic"
  /\ compilation' = PushBatchDiagnostic(compilation, plugin_driver_diagnostics)
  /\ plugin_driver_diagnostics' = {}
  /\ Advance("take_diagnostic", Ok)
  /\ trace' = Append(trace, "take_diagnostic")
  /\ UNCHANGED <<raw_minification, minification, options, project, cache, make_param,
                 next_dependency_id, emitted_asset_versions, output_filesystem,
                 tasks, asset_iter, clean_log, hook_calls, prev, analyze_result>>

\* build, line 122
BeginIdle ==
  /\ pc = "begin_idle"
  /\ cache' = "idle"
  /\ Advance("begin_idle", Ok)
  /\ trace' = Append(trace, "begin_idle")
  /\ UNCHANGED <<raw_minification, minification, plugin_driver_diagnostics, options, project, compilation, make_param, next_dependency_id,
                 emitted_asset_versions, output_filesystem, tasks, asset_iter,
                 clean_log, hook_calls, prev, analyze_result>>

----------------------------------------------------------------------------
(* Actions: compile_done and emit_assets *)

\* emit_assets, lines 213-235
Clean ==
  /\ pc = "clean"
  /\ LET mode == CleanMode(options, emitted_asset_versions) IN
     IF mode = "none"
       THEN /\ Advance("clean", Ok)
            /\ UNCHANGED <<output_filesystem, clean_log, trace>>
       ELSE IF mode = "remove_dir_all"
         THEN /\ clean_log' = [NoClean EXCEPT !.op = "remove_dir_all"]
              /\ trace' = Append(trace, "remove_dir_all")
              /\ \/ /\ output_filesystem' = <<>>
                    /\ Advance("clean", Ok)
                 \/ /\ UNCHANGED output_filesystem
                    /\ Advance("clean", Err("remove_dir_all", 0, NoFile))
         ELSE LET stale == StaleFiles(emitted_asset_versions, compilation.assets) IN
              /\ trace' = Append(trace, "remove_unused")
              /\ \E faults \in SUBSET {f \in stale :
                                          RemovePath(f) \in DOMAIN output_filesystem} :
                   /\ clean_log' = [op |-> "remove_file", stale |-> stale,
                                    faults |-> faults]
                   /\ output_filesystem' =
                        RemoveFiles(output_filesystem,
                                    {RemovePath(f) : f \in stale \ faults})
              /\ Advance("clean", Ok)
  /\ UNCHANGED <<raw_minification, minification, plugin_driver_diagnostics, options, project, cache, compilation, make_param,
                 next_dependency_id, emitted_asset_versions, tasks, asset_iter,
                 hook_calls, prev, analyze_result>>

\* emit_assets, lines 240-258: one emit_asset future per asset not skipped
StartWrites ==
  /\ pc = "asset_writes"
  /\ tasks' = [f \in {g \in DOMAIN compilation.assets :
                        ~SkipWrite(emitted_asset_versions, g, compilation.assets[g])}
                 |-> Pending]
  /\ pc' = "writing"
  /\ trace' = Append(trace, "asset_writes")
  /\ UNCHANGED <<raw_minification, minification, plugin_driver_diagnostics, options, project, result, cache, compilation, make_param,
                 next_dependency_id, emitted_asset_versions, output_filesystem,
                 asset_iter, clean_log, hook_calls, errors, prev, analyze_result>>

\* emit_asset on st = [fs, compilation]; fault is the filesystem call that
\* fails, call the dispatch of asset_emitted
\* EmitAssetRun firing asset_emitted although create_dir_all or write failed
EmitAssetRunFiresOnFault(st, filename, asset, fault, call) ==
  IF ~asset.source
    THEN [fs |-> st.fs, compilation |-> st.compilation,
          task |-> Settled(FALSE, Ok, <<>>)]
  ELSE IF fault = "create_dir_all" \/ fault = "write"
    THEN [fs |-> st.fs, compilation |-> st.compilation,
          task |-> Settled(FALSE, Err(fault, 0, filename), call.invoked)]
  ELSE [fs |-> WriteFile(st.fs, WritePath(filename), asset.version),
        compilation |->
          [st.compilation EXCEPT !.emitted_assets = @ \cup {SplitOnceQuery(filename)}],
        task |-> Settled(TRUE,
                         IF call.error = 0 THEN Ok
                         ELSE Err("asset_emitted", call.error, filename),
                         call.invoked)]

EmitAssetRun(st, filename, asset, fault, call) ==
  IF ~asset.source
    THEN [fs |-> st.fs, compilation |-> st.compilation,
          task |-> Settled(FALSE, Ok, <<>>)]
  ELSE IF fault = "create_dir_all" \/ fault = "write"
    THEN [fs |-> st.fs, compilation |-> st.compilation,
          task |-> Settled(FALSE, Err(fault, 0, filename), <<>>)]
  ELSE [fs |-> WriteFile(st.fs, WritePath(filename), asset.version),
        compilation |->
          [st.compilation EXCEPT !.emitted_assets = @ \cup {SplitOnceQuery(filename)}],
        task |-> Settled(TRUE,
                         IF call.error = 0 THEN Ok
                         ELSE Err("asset_emitted", call.error, filename),
                         call.invoked)]

EmitAsset(filename) ==
  /\ pc = "writing"
  /\ filename \in DOMAIN tasks
  /\ tasks[filename].state = "pending"
  /\ \E fault \in {"none", "create_dir_all", "write"}, failing \in SUBSET Fallible,
        raised \in project.diagnostics :
       LET run == EmitAssetRun([fs |-> output_filesystem,
                                compilation |-> compilation],
                               filename, compilation.assets[filename], fault,
                               CallHook(failing))
       IN /\ output_filesystem' = run.fs
          /\ compilation' = run.compilation
          /\ tasks' = [tasks EXCEPT ![filename] = run.task]
          /\ plugin_driver_diagnostics' =
               RaiseDiagnostic(plugin_driver_diagnostics,
                               raised /\ run.task.invoked # <<>>)
  /\ UNCHANGED <<raw_minification, minification, options, project, pc, result, cache, make_param,
                 next_dependency_id, emitted_asset_versions, asset_iter,
                 clean_log, trace, hook_calls, errors, prev, analyze_result>>

\* emit_assets, lines 258-264: every future has settled; the results are
\* read in the order the assets were iterated
SettleWrites ==
  /\ pc = "writing"
  /\ FuturesSettled(tasks)
  /\ emitted_asset_versions' =
       NewEmittedAssetVersions(compilation.assets, options)
  /\ \E order \in Orders(DOMAIN compilation.assets) :
       /\ asset_iter' = order
       /\ Advance("asset_writes", FirstError(order, tasks))
  /\ UNCHANGED <<raw_minification, minification, plugin_driver_diagnostics, options, project, cache, compilation, make_param,
                 next_dependency_id, output_filesystem, tasks, clean_log,
                 trace, hook_calls, prev, analyze_result>>

----------------------------------------------------------------------------
(* Actions: the conversions of raw_builtins *)

CompilerVars ==
  <<plugin_driver_diagnostics, options, project, pc, result, cache, compilation, make_param,
    next_dependency_id, emitted_asset_versions, output_filesystem, tasks,
    asset_iter, clean_log, trace, hook_calls, errors, analyze_result, prev>>

\* RawMinificationCondition::try_into
ConvertCondition ==
  /\ raw_minification.form = "condition"
  /\ minification = NotConverted
  /\ minification' = TryFromCondition(raw_minification.value)
  /\ UNCHANGED <<raw_minification, CompilerVars>>

\* RawMinificationConditions::try_into
ConvertConditions ==
  /\ raw_minification.form = "conditions"
  /\ minification = NotConverted
  /\ minification' = TryFromConditions(raw_minification.value)
  /\ UNCHANGED <<raw_minification, CompilerVars>>

----------------------------------------------------------------------------
(* Specifications *)

Next ==
  \/ Build
  \/ BeforeCompile
  \/ ThisCompilation
  \/ CompilationHook
  \/ Make
  \/ FinishMake
  \/ Finish
  \/ OptimizeDependency
  \/ Seal
  \/ AfterCompile
  \/ TakeDiagnostic
  \/ BeginIdle
  \/ Clean
  \/ Emit
  \/ StartWrites
  \/ \E filename \in project.files : EmitAsset(filename)
  \/ SettleWrites
  \/ AfterEmit
  \/ Done

Spec == Init /\ [][Next]_vars

SpecEmit == InitEmit /\ [][Next]_vars

SpecSource == InitSource /\ [][Next]_vars

SpecDiagnostics == InitDiagnostics /\ [][Next]_vars

NextBuiltins ==
  \/ ConvertCondition
  \/ ConvertConditions

SpecBuiltins == InitBuiltins /\ [][NextBuiltins]_vars

----------------------------------------------------------------------------
(* Properties *)

BuildPrefix ==
  <<"end_idle", "clear_entries", "fast_set", "before_compile",
    "this_compilation", "compilation", "make", "finish_make", "finish">>
CompileSuffix == <<"seal", "after_compile", "take_diagnostic", "begin_idle">>
EmitPhases == <<"emit", "asset_writes", "after_emit">>
IsPipelinePhase(e) ==
  e \in Range(BuildPrefix) \cup Range(CompileSuffix) \cup Range(EmitPhases)
        \cup {"optimize_dependency", "done"}
AllSettled == \A f \in DOMAIN tasks : tasks[f].state # "pending"

\* C1: a build that returned success went through end_idle, clear_entries, the
\* replacement of the Compilation, before_compile, this_compilation,
\* compilation, make, finish_make, finish, optionally the analysis, seal,
\* after_compile, the diagnostics drain, begin_idle, then (unless emission is
\* disabled) emit, the asset writes and after_emit, and last done: each once,
\* in this order, every asset write settled before after_emit.
C1_PhaseOrder ==
  result.status = "ok" =>
    /\ AllSettled
    /\ \E analysis \in {<<>>, <<"optimize_dependency">>} :
         SelectSeq(trace, IsPipelinePhase) =
           BuildPrefix \o analysis \o CompileSuffix
             \o (IF options.no_emit_assets THEN <<>> ELSE EmitPhases)
             \o <<"done">>

C1_Witness ==
  /\ result.status = "ok"
  /\ "optimize_dependency" \in Range(trace)
  /\ Written(tasks) # {}

EmissionFaults == {"create_dir_all", "write", "asset_emitted"}
PhaseEvent(phase) == IF phase \in EmissionFaults THEN "asset_writes" ELSE phase

\* C2: once a hook or phase of a build has returned an error, build has
\* returned exactly that error and the failing phase is the last one the build
\* entered; after a failed asset write neither after_emit nor done is fired.
C2_ErrorAborts ==
  /\ errors # {} =>
       /\ pc = "idle"
       /\ errors = {result}
       /\ trace[Len(trace)] = PhaseEvent(result.phase)
  /\ (\E f \in DOMAIN tasks : tasks[f].error.status = "err") =>
       /\ "after_emit" \notin Range(trace)
       /\ "done" \notin Range(trace)

C2_Witness ==
  /\ result.status = "err"
  /\ result.phase = "write"
  /\ trace[Len(trace)] = "asset_writes"

IsRegistrationPrefix(invoked) ==
  /\ Len(invoked) <= Len(Plugins)
  /\ \A i \in DOMAIN invoked : invoked[i] = i

\* C3: every hook dispatch invokes the plugins in registration order and stops
\* at the first plugin that fails; the plugins after it are not invoked (a
\* failing make hook leaves the entry plugin registered after it without
\* effect) and build returns the error of exactly that plugin.
C3_HookShortCircuit ==
  /\ IsRegistrationPrefix(hook_calls.invoked)
  /\ (hook_calls.hook # "" /\ Len(hook_calls.invoked) < Len(Plugins)) =>
       /\ result = Err(hook_calls.hook, Len(hook_calls.invoked), NoFile)
       /\ pc = "idle"
       /\ hook_calls.hook = "make" =>
            (compilation.entries = {} /\ make_param = {})
  /\ (hook_calls.hook # "" /\ Len(hook_calls.invoked) = Len(Plugins)) =>
       ~(result.status = "err" /\ result.phase = hook_calls.hook /\ result.plugin > 0)
  /\ \A f \in DOMAIN tasks :
       /\ IsRegistrationPrefix(tasks[f].invoked)
       /\ tasks[f].wrote =>
            tasks[f].error =
              IF Len(tasks[f].invoked) < Len(Plugins)
                THEN Err("asset_emitted", Len(tasks[f].invoked), f)
                ELSE Ok

C3_Witness ==
  /\ hook_calls.hook = "make"
  /\ hook_calls.invoked = <<1, 2>>
  /\ result = Err("make", 2, NoFile)

Tracking == options.incremental_rebuild_emit_asset
Assets == compilation.assets
SameAssetsAsPrevious == prev.ok /\ Assets = prev.assets

\* C4 as stated: a build that follows a successful build and produces the same
\* assets, with the same versions, writes no asset.
C4_RebuildWritesNothing == SameAssetsAsPrevious => Written(tasks) = {}

\* C4, amended: with asset-emission tracking enabled, a build that follows a
\* successful build and produces the same assets, each with a non-empty
\* version, starts no asset write at all.
C4_TrackedRebuildWritesNothing ==
  (/\ SameAssetsAsPrevious
   /\ Tracking
   /\ \A f \in DOMAIN Assets : Assets[f].version # "") => DOMAIN tasks = {}

C4_Witness ==
  /\ SameAssetsAsPrevious
  /\ Tracking
  /\ DOMAIN Assets = project.files
  /\ \A f \in DOMAIN Assets : Assets[f].version # ""
  /\ prev.written = project.files
  /\ pc = "after_emit"

\* C5: with clean-output enabled and a non-empty version map left by the
\* previous, successful build, once the clean step of this build is over (no removal having
\* faulted) every file the previous build wrote for an asset that is gone has
\* left the output filesystem, every file it wrote for an asset that is still
\* there remains, and the directory was not wiped.
C5_StalePruning ==
  (/\ pc = "emit"
   /\ prev.ok
   /\ options.clean
   /\ DOMAIN emitted_asset_versions # {}
   /\ clean_log.faults = {}) =>
     /\ clean_log.op = "remove_file"
     /\ \A f \in prev.written :
          WritePath(f) \in DOMAIN output_filesystem <=> f \in DOMAIN Assets

\* C6: with clean-output enabled and an empty version map, the output
\* directory is removed as a whole before the emit hook and before any asset
\* write; when the removal fails the build returns and writes nothing.
C6_FullClean ==
  /\ (pc = "emit" /\ options.clean /\ DOMAIN emitted_asset_versions = {}) =>
       /\ clean_log.op = "remove_dir_all"
       /\ trace[Len(trace)] = "remove_dir_all"
       /\ DOMAIN output_filesystem = {}
       /\ DOMAIN tasks = {}
  /\ \A i, j \in DOMAIN trace :
       (trace[i] = "remove_dir_all" /\ trace[j] \in {"emit", "asset_writes"}) => i < j
  /\ (result.status = "err" /\ result.phase = "remove_dir_all") =>
       /\ pc = "idle"
       /\ DOMAIN tasks = {}
       /\ "emit" \notin Range(trace)
       /\ "asset_writes" \notin Range(trace)

C6_Witness ==
  /\ pc = "emit"
  /\ options.clean
  /\ DOMAIN emitted_asset_versions = {}
  /\ prev.written # {}
  /\ DOMAIN output_filesystem = {}

LibraryTypesDeclareModule ==
  \E types \in options.enabled_library_types :
    "module" \in Range(types) \/ "commonjs-static" \in Range(types)
AnalysisEnabled == options.tree_shaking \/ LibraryTypesDeclareModule
AnalysisRan == "optimize_dependency" \in Range(trace)

\* C7: optimize_dependency runs in compile exactly when tree-shaking is
\* enabled or the enabled library types contain "module" or "commonjs-static";
\* its result is stored in the compilation, and without it the analysis
\* fields keep the values of the fresh Compilation.
C7_TreeShakingGate ==
  /\ AnalysisRan => AnalysisEnabled
  /\ "seal" \in Range(trace) => (AnalysisRan <=> AnalysisEnabled)
  /\ ~AnalysisEnabled =>
       /\ analyze_result = {}
       /\ compilation.used_symbol_ref = NewCompilation.used_symbol_ref
       /\ compilation.bailout_module_identifiers =
            NewCompilation.bailout_module_identifiers
       /\ compilation.side_effects_free_modules =
            NewCompilation.side_effects_free_modules
       /\ compilation.module_item_map = NewCompilation.module_item_map
  /\ \A res \in analyze_result :
       /\ compilation.used_symbol_ref = res.used_symbol_ref
       /\ compilation.bailout_module_identifiers = res.bail_out_module_identifiers
       /\ compilation.side_effects_free_modules = res.side_effects_free_modules
       /\ compilation.module_item_map = res.module_item_map

C7_Witness ==
  /\ ~options.tree_shaking
  /\ pc = "seal"
  /\ AnalysisRan
  /\ compilation.used_symbol_ref # {}

\* C8: when seal starts, include_module_ids is the set of all modules of the
\* module graph unless tree-shaking and the side-effects optimization are both
\* enabled, in which case it is the include_module_ids of the analysis result.
C8_IncludeModuleIds ==
  pc = "seal" =>
    IF options.tree_shaking /\ options.side_effects
      THEN \E res \in analyze_result :
             compilation.include_module_ids = res.include_module_ids
      ELSE compilation.include_module_ids = compilation.modules

C8_Witness ==
  /\ pc = "seal"
  /\ ~options.tree_shaking
  /\ \E res \in analyze_result : res.include_module_ids # compilation.modules
  /\ compilation.include_module_ids = compilation.modules
  /\ compilation.modules # {}

EmissionFailed == result.status = "err" /\ result.phase \in EmissionFaults
TaskFailed(f) == tasks[f].error.status = "err"

\* C9: when emit_assets returns the error of an asset write, every write of
\* the emission has settled, the error is that of the first failed asset in
\* iteration order, every other asset that needed writing and did not fail is
\* on the output filesystem, and after_emit has not fired.
C9_WriteFaultIsolation ==
  EmissionFailed =>
    /\ pc = "idle"
    /\ AllSettled
    /\ \E i \in DOMAIN asset_iter :
         /\ asset_iter[i] \in DOMAIN tasks
         /\ TaskFailed(asset_iter[i])
         /\ result = tasks[asset_iter[i]].error
         /\ \A j \in 1..(i - 1) :
              asset_iter[j] \in DOMAIN tasks => ~TaskFailed(asset_iter[j])
    /\ \A f \in DOMAIN tasks :
         (~TaskFailed(f) /\ Assets[f].source) =>
           /\ tasks[f].wrote
           /\ WritePath(f) \in DOMAIN output_filesystem
           /\ output_filesystem[WritePath(f)] = Assets[f].version
    /\ "after_emit" \notin Range(trace)

C9_Witness ==
  /\ EmissionFailed
  /\ result.phase = "write"
  /\ Cardinality(DOMAIN tasks) = 2
  /\ Cardinality(Written(tasks)) = 1
  /\ \E f \in DOMAIN tasks : ~TaskFailed(f)

FirstGeneration == options.incremental_rebuild_make_state # "later"

\* C10: after a make hook that ran the entry plugin on a first-generation
\* build, the module graph holds one entry dependency, the entry table holds
\* it under the plugin's name and the force-build set holds exactly its id;
\* with a make state that is not first-generation the module graph, the entry
\* table and the MakeParam are as they were before the hook.
C10_EntryRegistration ==
  pc = "finish_make" =>
    IF FirstGeneration
      THEN LET dependency_id == next_dependency_id - 1 IN
           /\ dependency_id >= 0
           /\ compilation.dependencies = {dependency_id}
           /\ compilation.entries =
                {[name |-> EntryName, dependency |-> dependency_id]}
           /\ make_param = {dependency_id}
      ELSE /\ compilation.dependencies = NewCompilation.dependencies
           /\ compilation.entries = NewCompilation.entries
           /\ make_param = {}
           /\ next_dependency_id = 0

C10_Witness ==
  /\ pc = "finish_make"
  /\ options.incremental_rebuild_make_state = "first"
  /\ make_param = {1}
  /\ compilation.dependencies = {1}

\* C12: a conversion of raw match conditions never panics, and one whose type
\* is none of the recognized kinds ("string", "regexp", and "array" for the
\* plural form) returns an internal error.
C12_UnknownKindIsError ==
  /\ minification.status # "panic"
  /\ (minification.status # "pending"
       /\ raw_minification.form # "none"
       /\ raw_minification.value.type \notin
            (IF raw_minification.form = "condition"
               THEN {"string", "regexp"} ELSE {"string", "regexp", "array"})) =>
       minification.status = "err"

CompilePhases ==
  {"before_compile", "this_compilation", "compilation", "make", "finish_make",
   "finish", "optimize_dependency", "seal", "after_compile", "take_diagnostic"}
CompileDonePhases ==
  {"clean", "emit", "asset_writes", "writing", "after_emit", "done"}

\* C11 as stated: whenever a phase of a build is executing, from
\* before_compile through the done hook, asset emission included, the cache
\* is active.
C11_ActiveWhileBuilding == pc # "idle" => cache = "active"

\* C11, amended: the cache is active while build runs its phases up to the
\* drain of the diagnostics at the end of compile and until begin_idle is
\* called; during compile_done (clean, emit, the asset writes, after_emit,
\* done) it is idle again.
C11_ActiveDuringCompile ==
  /\ pc \in CompilePhases \cup {"begin_idle"} => cache = "active"
  /\ pc \in CompileDonePhases => cache = "idle"

C11_Witness ==
  /\ pc = "after_emit"
  /\ cache = "idle"
  /\ Written(tasks) # {}

\* C19: end_idle and begin_idle alternate over the builds of one Compiler:
\* every build that has returned, with success or with an error, has called
\* begin_idle once, and whenever no build is running the cache is idle.
C19_IdleBracketsEveryBuild ==
  /\ pc = "idle" => cache = "idle"
  /\ result.status \in {"ok", "err"} =>
       Len(SelectSeq(trace, LAMBDA e : e = "begin_idle")) = 1

VersionMatches(f) ==
  /\ f \in DOMAIN emitted_asset_versions
  /\ emitted_asset_versions[f] # ""
  /\ emitted_asset_versions[f] = Assets[f].version

\* C13: once emit_assets has gone over the assets, an asset has no write
\* started for it exactly when emitted_asset_versions holds, for its exact
\* filename, a non-empty version equal to the asset's version; an asset whose
\* filename is missing from the map, whose recorded version differs or whose
\* version is empty has a write started.
C13_SkipIffVersionMatch ==
  pc = "writing" =>
    /\ DOMAIN tasks \subseteq DOMAIN Assets
    /\ \A f \in DOMAIN Assets : f \notin DOMAIN tasks <=> VersionMatches(f)

C13_Witness ==
  /\ pc = "writing"
  /\ QueryFile \in DOMAIN Assets \ DOMAIN tasks
  /\ PlainFile \in DOMAIN tasks \cap DOMAIN emitted_asset_versions
  /\ Assets[PlainFile].version = emitted_asset_versions[PlainFile]
  /\ tasks[PlainFile].wrote

EmissionCollected == "asset_writes" \in Range(trace) /\ pc # "writing"

\* C14: once the asset writes of an emission have been collected, whether
\* they succeeded or not, emitted_asset_versions is a fresh map: with tracking
\* enabled its keys are exactly the current asset filenames, each mapped to
\* the asset's current version, rewritten or not; with tracking disabled it is
\* empty.  An emission that did not get past the emit hook leaves the map as
\* it was.
C14_VersionMapReplaced ==
  EmissionCollected =>
    IF Tracking
      THEN /\ DOMAIN emitted_asset_versions = DOMAIN Assets
           /\ \A f \in DOMAIN Assets :
                emitted_asset_versions[f] = Assets[f].version
      ELSE DOMAIN emitted_asset_versions = {}

C14_Witness ==
  /\ EmissionCollected
  /\ Tracking
  /\ DOMAIN Assets = {PlainFile}
  /\ DOMAIN tasks = {}
  /\ QueryFile \in DOMAIN prev.assets
  /\ DOMAIN emitted_asset_versions = {PlainFile}

\* C15: with clean-output configured the whole output directory is removed
\* only in a build before which this Compiler has not written any asset.
C15_WipeOnlyBeforeFirstEmission ==
  clean_log.op = "remove_dir_all" => ~prev.emitted

\* C16: an asset that was written is on the output filesystem at its filename
\* cut before the first '?', while the compilation's emitted-set and (with
\* tracking) emitted_asset_versions hold its original filename.
C16_QueryKeyBookkeeping ==
  \A f \in Written(tasks) :
    /\ WritePath(f) \in DOMAIN output_filesystem
    /\ f \in compilation.emitted_assets
    /\ (EmissionCollected /\ Tracking) => f \in DOMAIN emitted_asset_versions

EmissionEvents ==
  {"remove_dir_all", "remove_unused", "emit", "asset_writes", "after_emit"}

\* C18: with no_emit_assets set no step of a build changes the output
\* filesystem or emitted_asset_versions, starts an asset write, runs the clean
\* step or fires emit, asset_emitted or after_emit; compile_done goes from
\* begin_idle straight to the done hook, and a build that succeeds has fired
\* done last.
C18_NoEmitFrame ==
  [][options.no_emit_assets =>
       /\ output_filesystem' = output_filesystem
       /\ emitted_asset_versions' = emitted_asset_versions
       /\ tasks' = <<>>
       /\ clean_log' = NoClean
       /\ Range(trace') \cap EmissionEvents = {}
       /\ pc = "begin_idle" => pc' = "done"
       /\ result'.status = "ok" => trace'[Len(trace')] = "done"]_vars

C18_Witness ==
  /\ options.no_emit_assets
  /\ result.status = "ok"
  /\ trace[Len(trace)] = "done"
  /\ DOMAIN Assets # {}

\* C20: an asset whose write failed in the previous build and whose version
\* is unchanged has a write started for it in this build: the failed write
\* was not remembered as emitted.
C20_FailedWriteRetried ==
  pc = "writing" =>
    \A f \in prev.failed \cap DOMAIN Assets :
      Assets[f].version = prev.assets[f].version => f \in DOMAIN tasks

AssetEmittedFired(f) == f \in DOMAIN tasks /\ tasks[f].invoked # <<>>

\* C17: within one emission asset_emitted is dispatched for an asset exactly
\* when the asset was physically written, once (each plugin at most once, in
\* registration order), with the file on the output filesystem and the
\* filename emit_asset wrote it under in the compilation's emitted-set; it is
\* not dispatched for an asset skipped by the version check, for one whose
\* create_dir_all or write failed, or for one without a source.
C17_AssetEmittedOncePerWrite ==
  /\ \A f \in DOMAIN tasks :
       /\ f \in DOMAIN Assets
       /\ AssetEmittedFired(f) <=> tasks[f].wrote
       /\ AssetEmittedFired(f) =>
            /\ IsRegistrationPrefix(tasks[f].invoked)
            /\ Assets[f].source
            /\ ~VersionMatches(f) \/ EmissionCollected
            /\ WritePath(f) \in DOMAIN output_filesystem
            /\ output_filesystem[WritePath(f)] = Assets[f].version
            /\ SplitOnceQuery(f) \in compilation.emitted_assets
            /\ tasks[f].error.status = "err" => tasks[f].error.phase = "asset_emitted"
       /\ ~Assets[f].source => ~AssetEmittedFired(f)
       /\ f \in WriteFailed(tasks) => ~AssetEmittedFired(f)
  /\ Cardinality(compilation.emitted_assets) = Cardinality(Written(tasks))
  /\ pc = "writing" =>
       \A f \in DOMAIN Assets : VersionMatches(f) => ~AssetEmittedFired(f)

C17_Witness ==
  /\ pc = "after_emit"
  /\ DOMAIN Assets = {QueryFile, PlainFile}
  /\ ~Assets[PlainFile].source
  /\ PlainFile \in DOMAIN tasks
  /\ AssetEmittedFired(QueryFile)
  /\ ~AssetEmittedFired(PlainFile)

\* C21: the diagnostics pushed into the Compilation of a build were all
\* raised during that build; none was raised during an earlier build.
C21_DiagnosticsOfThisBuild ==
  \A d \in compilation.diagnostics : d.build = "this"

====
